---- MODULE Spec2Model ----
(***************************************************************************)
(* Model of the str-newtype derive macro (timothee-haudebourg/             *)
(* str-newtype-rs): the attribute resolver (derive/src/options.rs), the    *)
(* synthesizer (derive/src/new_type.rs) and the behaviour of the code it   *)
(* generates for a wrapper `Type(str)` and its owned companion             *)
(* `OwnedType(String)`.                                                    *)
(*                                                                         *)
(* Values of the generated code are represented by their memory: a `str`,  *)
(* a `String`, a `[u8]`, a `Vec<u8>`, a `Type` and an `OwnedType` are all  *)
(* byte sequences, told apart by a type tag.  Safe `str`/`String` inputs   *)
(* are the UTF-8 encodings of texts (sequences of code points).            *)
(***************************************************************************)
EXTENDS Naturals, Sequences, FiniteSets, TLC

\* Longest byte sequence handed to the generated code.
MaxLen == 2

VARIABLES
    validator,    \* the user's validate_bytes / validate_str implementations
    impls,        \* the user's PartialEq / PartialOrd / Hash implementations for Type
    live,         \* the value under observation: <<>> (none), <<a &Type>> or <<an OwnedType>>
    ret,          \* the last call: [op, input, res]
    options,      \* the resolver's Options (the configuration the code is generated for)
    applied,      \* the attributes applied so far, in order
    status,       \* "resolving" | "error" | "panic" | "derived"
    output        \* the items of the generated token stream, in order

vars == <<validator, impls, live, ret, options, applied, status, output>>

(***************************************************************************)
(* Bytes and text.                                                         *)
(***************************************************************************)

\* Code points used in texts: 'f' (U+0066) and 'e-acute' (U+00E9).
Chars == {102, 233}

\* UTF-8 encoding of one code point below U+0800.
EncodeChar(c) == IF c < 128 THEN <<c>> ELSE <<192 + (c \div 64), 128 + (c % 64)>>

\* The bytes that occur: 'f', and the two bytes of U+00E9 (0xC3, 0xA9).
Bytes == {102, 195, 169}

RECURSIVE SeqsUpTo(_, _)
SeqsUpTo(S, n) ==
    IF n = 0 THEN {<<>>}
    ELSE LET shorter == SeqsUpTo(S, n - 1)
         IN  shorter \cup {Append(s, x) : s \in shorter, x \in S}

RECURSIVE Encode(_)
\* str::as_bytes of a text: the concatenated encodings of its code points.
Encode(t) == IF t = <<>> THEN <<>> ELSE EncodeChar(Head(t)) \o Encode(Tail(t))

RECURSIVE from_utf8_ok(_)
\* std::str::from_utf8(b).is_ok(), for the one- and two-byte forms.
from_utf8_ok(b) ==
    IF b = <<>> THEN TRUE
    ELSE IF b[1] < 128 THEN from_utf8_ok(Tail(b))
    ELSE IF b[1] >= 194 /\ b[1] <= 223 /\ Len(b) >= 2
         THEN b[2] >= 128 /\ b[2] <= 191 /\ from_utf8_ok(Tail(Tail(b)))
         ELSE FALSE

ByteStrs == SeqsUpTo(Bytes, MaxLen)
Texts == {t \in SeqsUpTo(Chars, MaxLen) : Len(Encode(t)) <= MaxLen}
\* The memory of every safe `str` / `String` value.
StrBytes == {Encode(t) : t \in Texts}

\* Typed inputs.
Val(ty, v) == [ty |-> ty, v |-> v]
StrInputs == {Val("str", b) : b \in StrBytes}
SliceInputs == {Val("[u8]", b) : b \in ByteStrs}
StringInputs == {Val("String", b) : b \in StrBytes}
VecInputs == {Val("Vec<u8>", b) : b \in ByteStrs}

(***************************************************************************)
(* The user's validation methods (required by the macro, never generated). *)
(***************************************************************************)

ValidateBytesKinds == {"any", "utf8", "all_f"}
ValidateStrKinds == {"delegate", "any", "all_f"}

AllF(b) == Len(b) >= 1 /\ \A i \in 1..Len(b) : b[i] = 102

\* FooStr::validate_bytes of the crate documentation's example:
\* s.len() == 3 && s[0] == b'f' && s[1] == b'f' && s[2] == b'f'
FooStr_validate_bytes(s) == Len(s) = 3 /\ s[1] = 102 /\ s[2] = 102 /\ s[3] = 102

\* Type::validate_bytes(&[u8]) -> bool, as the user wrote it.
validate_bytes(b) ==
    CASE validator.bytes = "any" -> TRUE
      [] validator.bytes = "utf8" -> from_utf8_ok(b)
      [] validator.bytes = "all_f" -> AllF(b)
      [] validator.bytes = "FooStr" -> FooStr_validate_bytes(b)

\* Type::validate_str(&str) -> bool, as the user wrote it ("delegate" is the
\* crate documentation's `Self::validate_bytes(s.as_bytes())`).
validate_str(s) ==
    CASE validator.str = "delegate" -> validate_bytes(s)
      [] validator.str = "any" -> TRUE
      [] validator.str = "all_f" -> AllF(s)

(***************************************************************************)
(* Return values of the generated functions.                               *)
(***************************************************************************)

Ok(v) == [tag |-> "Ok", err |-> "", val |-> v]
Err(kind, payload) == [tag |-> "Err", err |-> kind, val |-> payload]
\* A function whose return type is not a `Result`.
Direct(v) == [tag |-> "Direct", err |-> "", val |-> v]
Yielded(res) == res.tag \in {"Ok", "Direct"}
Unit == Val("()", <<>>)

(***************************************************************************)
(* derive_with_options: the borrowed type.                                 *)
(***************************************************************************)

\* let error = (!options.infallible).then(|| format_ident!("Invalid{ident}"));
error_is_some == ~options.infallible

\* Type::new_unchecked_from_bytes: transmute::<&[u8], &Self>(input)
new_unchecked_from_bytes(input) == Val("Type", input)

\* Type::new_unchecked: Self::new_unchecked_from_bytes(input.as_bytes())
new_unchecked(input) == new_unchecked_from_bytes(input)

\* Type::from_str validating with the byte predicate instead of the str one.
Type_from_str_validating_bytes(input) ==
    IF error_is_some
    THEN IF validate_bytes(input.v)
         THEN Ok(new_unchecked(input.v))
         ELSE Err("Invalid", input)
    ELSE Direct(Val("Type", input.v))

\* Type::from_str, both modes.
Type_from_str(input) ==
    IF error_is_some
    THEN IF validate_str(input.v)
         THEN Ok(new_unchecked(input.v))
         ELSE Err("Invalid", input)
    ELSE Direct(Val("Type", input.v))

\* Type::from_bytes skipping validate_bytes in the fallible shape.
Type_from_bytes_unvalidated(input) ==
    IF error_is_some
    THEN Ok(new_unchecked_from_bytes(input.v))
    ELSE IF from_utf8_ok(input.v)
         THEN Ok(Val("Type", input.v))
         ELSE Err("Utf8Error", Unit)

\* Type::from_bytes, both modes.
Type_from_bytes(input) ==
    IF error_is_some
    THEN IF validate_bytes(input.v)
         THEN Ok(new_unchecked_from_bytes(input.v))
         ELSE Err("Invalid", input)
    ELSE IF from_utf8_ok(input.v)
         THEN Ok(Type_from_str(Val("str", input.v)).val)
         ELSE Err("Utf8Error", Unit)

\* Type::new, both modes (T: AsRef<[u8]> when fallible, T: AsRef<str> otherwise).
Type_new(input) ==
    IF error_is_some
    THEN LET bytes == input.v
         IN  IF validate_bytes(bytes)
             THEN Ok(new_unchecked_from_bytes(bytes))
             ELSE Err("Invalid", input)
    ELSE Type_from_str(Val("str", input.v))

\* The input types `Type::new` accepts.
Type_new_inputs ==
    IF error_is_some
    THEN StrInputs \cup SliceInputs
    ELSE StrInputs

\* impl TryFrom<&[u8]> for &Type
Type_try_from_bytes(value) == IF error_is_some THEN Type_new(value) ELSE Type_from_bytes(value)

\* impl TryFrom<&str> for &Type (fallible) / impl From<&str> for &Type (infallible)
Type_try_from_str(value) == Type_new(value)

\* Type::as_str: &self.0
Type_as_str(self) == Direct(Val("str", self.v))

\* Type::as_bytes: self.0.as_bytes()
Type_as_bytes(self) == Direct(Val("[u8]", self.v))

(***************************************************************************)
(* str_newtype::Buffer and derive_owned_type: the owned type.              *)
(***************************************************************************)

\* Buffer::as_bytes for Vec<u8> (self) and String (self.as_bytes())
Buffer_as_bytes(input) == input.v

\* Buffer::into_bytes for Vec<u8> (self) and String (self.into_bytes())
Buffer_into_bytes(input) == input.v

\* OwnedType::new_unchecked going through String::from_utf8_lossy, which replaces
\* ill-formed input by U+FFFD.
OwnedType_new_unchecked_lossy(input) ==
    Val("OwnedType", IF from_utf8_ok(input) THEN input ELSE <<239, 191, 189>>)

\* OwnedType::new_unchecked: Self(String::from_utf8_unchecked(input.into()))
OwnedType_new_unchecked(input) == Val("OwnedType", input)

\* The tuple constructor OwnedType(String), as the generated code itself uses it.
OwnedType_literal(string) == Val("OwnedType", string.v)

\* let vis = error.is_none().then(|| quote! { pub });
field_vis == IF ~error_is_some THEN "pub" ELSE "private"

\* OwnedType::new whose error carries the buffer turned into bytes:
\* Err(Error(input.into_bytes())).
OwnedType_new_err_into_bytes(input) ==
    IF error_is_some
    THEN IF validate_bytes(Buffer_as_bytes(input))
         THEN Ok(OwnedType_new_unchecked(Buffer_into_bytes(input)))
         ELSE Err("Invalid", Val("Vec<u8>", Buffer_into_bytes(input)))
    ELSE Direct(OwnedType_literal(input))

\* OwnedType::new, both modes (T: Buffer when fallible, impl Into<String> otherwise).
OwnedType_new(input) ==
    IF error_is_some
    THEN IF validate_bytes(Buffer_as_bytes(input))
         THEN Ok(OwnedType_new_unchecked(Buffer_into_bytes(input)))
         ELSE Err("Invalid", input)
    ELSE Direct(OwnedType_literal(input))

OwnedType_new_inputs ==
    IF error_is_some THEN StringInputs \cup VecInputs ELSE StringInputs \cup StrInputs

\* OwnedType::from_bytes, both modes.
OwnedType_from_bytes(input) ==
    IF error_is_some
    THEN OwnedType_new(input)
    ELSE IF from_utf8_ok(input.v)
         THEN Ok(OwnedType_new(Val("String", input.v)).val)
         ELSE Err("FromUtf8Error", input)

\* OwnedType::from_string wrapping its input without validating it.
OwnedType_from_string_unvalidated(input) ==
    IF error_is_some THEN Ok(OwnedType_literal(input)) ELSE Direct(OwnedType_literal(input))

\* OwnedType::from_string, both modes.
OwnedType_from_string(input) ==
    IF error_is_some THEN OwnedType_new(input) ELSE Direct(OwnedType_literal(input))

\* impl TryFrom<Vec<u8>> for OwnedType
OwnedType_try_from_vec(value) ==
    IF error_is_some THEN OwnedType_new(value) ELSE OwnedType_from_bytes(value)

\* impl TryFrom<String> for OwnedType (fallible) / impl From<String> (infallible)
OwnedType_try_from_string(value) ==
    IF error_is_some THEN OwnedType_new(value) ELSE Direct(OwnedType_literal(value))

\* impl FromStr for OwnedType: value.to_owned() is a String with the same bytes.
OwnedType_from_str(value) ==
    IF error_is_some
    THEN OwnedType_new(Val("String", value.v))
    ELSE Ok(OwnedType_literal(Val("String", value.v)))

\* OwnedType::as_{type}: the borrowing accessor.
OwnedType_as_ref(self) ==
    IF error_is_some
    THEN new_unchecked(self.v)
    ELSE Type_new(Val("str", self.v)).val

\* OwnedType::as_str: self.0.as_str()
OwnedType_as_str(self) == Direct(Val("str", self.v))

\* OwnedType::as_bytes: self.0.as_bytes()
OwnedType_as_bytes(self) == Direct(Val("[u8]", self.v))

\* OwnedType::into_string: self.0
OwnedType_into_string(self) == Direct(Val("String", self.v))

\* OwnedType::into_bytes: self.0.into_bytes()
OwnedType_into_bytes(self) == Direct(Val("Vec<u8>", self.v))

\* impl ToOwned for Type: OwnedType(self.as_str().to_owned())
Type_to_owned(self) == Direct(OwnedType_literal(Val("String", Type_as_str(self).val.v)))

\* #[derive(Clone)] on OwnedType
OwnedType_clone(self) == Direct(Val("OwnedType", self.v))

\* Derive::Default: <&'static Type as Default>::default().to_owned()
OwnedType_default(static) == Type_to_owned(static)

\* impl Deserialize for &Type, on the decoded &str.
Type_deserialize(decoded) ==
    IF error_is_some
    THEN LET r == Type_from_str(decoded)
         IN  IF r.tag = "Ok" THEN r ELSE Err("de::Error::custom", r.val)
    \* `deserialize(deserializer).map(Type::from_str)?` is the unwrapped &Type.
    ELSE Direct(Type_from_str(decoded).val)

\* impl Deserialize for OwnedType, on the decoded String.
OwnedType_deserialize(decoded) ==
    IF error_is_some
    THEN LET r == OwnedType_new(decoded)
         IN  IF r.tag = "Ok" THEN r ELSE Err("de::Error::custom", r.val)
    \* `deserialize(deserializer).map(Self)?` is the unwrapped OwnedType.
    ELSE Direct(OwnedType_literal(decoded))

(***************************************************************************)
(* The user's comparison traits on Type, and the generated comparisons.    *)
(***************************************************************************)

RECURSIVE CmpBytes(_, _)
\* <[u8] as Ord>::cmp: lexicographic.
CmpBytes(a, b) ==
    IF a = <<>> /\ b = <<>> THEN "Equal"
    ELSE IF a = <<>> THEN "Less"
    ELSE IF b = <<>> THEN "Greater"
    ELSE IF a[1] < b[1] THEN "Less"
    ELSE IF a[1] > b[1] THEN "Greater"
    ELSE CmpBytes(Tail(a), Tail(b))

CmpNat(m, n) == IF m < n THEN "Less" ELSE IF m > n THEN "Greater" ELSE "Equal"

Some(x) == <<x>>
None == <<>>

\* <Type as PartialEq>::eq: #[derive(PartialEq)] (as in examples/iri.rs) or
\* hand-written and coarser (here: by length).
Type_eq(a, b) ==
    IF impls.eq = "derived" THEN a.v = b.v ELSE Len(a.v) = Len(b.v)

\* <Type as PartialOrd>::partial_cmp: derived, or hand-written and partial
\* (here: by length, the empty value incomparable with the others).
Type_partial_cmp(a, b) ==
    IF impls.ord = "derived" THEN Some(CmpBytes(a.v, b.v))
    ELSE IF (a.v = <<>>) # (b.v = <<>>) THEN None
    ELSE Some(CmpNat(Len(a.v), Len(b.v)))

\* <Type as Hash>::hash: what is fed to the hasher.
Type_hash(a) ==
    IF impls.hash = "derived" THEN a.v ELSE <<Len(a.v)>>

\* partial_eq_impl comparing with the unchecked wrapper of the foreign value,
\* whether or not construction succeeds.
Type_eq_foreign_unchecked(self, other) == Type_eq(self, Val("Type", other.v))

\* partial_eq_impl: impl PartialEq<T> for Type
Type_eq_foreign(self, other) ==
    IF error_is_some
    THEN LET r == Type_new(other)
         IN  IF r.tag = "Ok" THEN Type_eq(self, r.val) ELSE FALSE
    ELSE Type_eq(self, Type_new(other).val)

\* partial_eq_impl: impl PartialEq<Type> for T
Foreign_eq_Type(self, other) ==
    IF error_is_some
    THEN LET r == Type_new(self)
         IN  IF r.tag = "Ok" THEN Type_eq(r.val, other) ELSE FALSE
    ELSE Type_eq(Type_new(self).val, other)

\* partial_ord_impl comparing the foreign value's bytes without constructing.
Foreign_partial_cmp_Type_raw(self, other) == Some(CmpBytes(self.v, other.v))

\* partial_ord_impl: impl PartialOrd<T> for Type
Type_partial_cmp_foreign(self, other) ==
    IF error_is_some
    THEN LET r == Type_new(other)
         IN  IF r.tag = "Ok" THEN Type_partial_cmp(self, r.val) ELSE None
    ELSE Type_partial_cmp(self, Type_new(other).val)

\* partial_ord_impl: impl PartialOrd<Type> for T
Foreign_partial_cmp_Type(self, other) ==
    IF error_is_some
    THEN LET r == Type_new(self)
         IN  IF r.tag = "Ok" THEN Type_partial_cmp(r.val, other) ELSE None
    ELSE Type_partial_cmp(Type_new(self).val, other)

\* Derive::PartialEq: impl PartialEq for OwnedType
OwnedType_eq(self, other) == Type_eq(OwnedType_as_ref(self), OwnedType_as_ref(other))

\* Derive::Hash hashing the String field instead of the borrowed view.
OwnedType_hash_of_field(self) == self.v

\* Derive::Hash: impl Hash for OwnedType
OwnedType_hash(self) == Type_hash(OwnedType_as_ref(self))

(***************************************************************************)
(* Options (derive/src/options.rs).                                        *)
(***************************************************************************)

\* #[derive(Default)] struct Derives: one bool per derivable trait.
Derives_default ==
    [default |-> FALSE, partial_eq |-> FALSE, eq |-> FALSE,
     partial_ord |-> FALSE, ord |-> FALSE, hash |-> FALSE]

\* #[derive(Default)] struct Options; an Option is <<>> (None) or <<x>> (Some(x)).
Options_default ==
    [name |-> <<>>, owned |-> <<>>,
     foreign |-> [eq |-> <<>>, ord |-> <<>>, serde |-> FALSE],
     no_deref |-> FALSE, infallible |-> FALSE]

AllDerives == [d \in DOMAIN Derives_default |-> TRUE]

(***************************************************************************)
(* The generated code at run time: the value under observation and the     *)
(* last call made.                                                         *)
(***************************************************************************)

NoCall == [op |-> "", input |-> Unit, res |-> Direct(Unit)]

\* A configuration requesting every capability that compiles, in either mode
\* (infallible Type::new takes AsRef<str>, so only str-like foreign types
\* compile there, and the infallible Deserialize impls do not type-check).
RunOptions(inf) ==
    [Options_default EXCEPT
        !.owned = <<[ident |-> "OwnedType", derives |-> AllDerives]>>,
        !.foreign = [eq |-> IF inf THEN <<"String">> ELSE <<"[u8]">>,
                     ord |-> <<"str">>, serde |-> ~inf],
        !.infallible = inf]

Init ==
    /\ options \in {RunOptions(inf) : inf \in BOOLEAN}
    \* Infallible code never calls the validation methods.
    /\ validator \in IF options.infallible
                      THEN {[bytes |-> "any", str |-> "any"]}
                      ELSE [bytes : ValidateBytesKinds, str : ValidateStrKinds]
    /\ impls = [eq |-> "derived", ord |-> "derived", hash |-> "derived"]
    /\ live = <<>>
    /\ ret = NoCall
    /\ applied = <<>>
    /\ status = "generated"
    /\ output = <<>>

\* A call returns: a &Type or an OwnedType it yields becomes the live value.
Returns(op, input, res) ==
    /\ ret' = [op |-> op, input |-> input, res |-> res]
    /\ live' = IF Yielded(res) /\ res.val.ty \in {"Type", "OwnedType"}
               THEN <<res.val>> ELSE live
    /\ UNCHANGED <<validator, impls, options, applied, status, output>>

\* A call that consumes the live owned value.
Consumes(op, input, res) ==
    /\ ret' = [op |-> op, input |-> input, res |-> res]
    /\ live' = <<>>
    /\ UNCHANGED <<validator, impls, options, applied, status, output>>

HasOwned == options.owned # <<>>
LiveWrapper == live # <<>> /\ live[1].ty = "Type"
LiveOwned == live # <<>> /\ live[1].ty = "OwnedType"

TypeNew == \E input \in Type_new_inputs : Returns("Type::new", input, Type_new(input))

TypeFromBytes ==
    \E input \in SliceInputs : Returns("Type::from_bytes", input, Type_from_bytes(input))

TypeFromStr ==
    \E input \in StrInputs : Returns("Type::from_str", input, Type_from_str(input))

TypeTryFromBytes ==
    \E input \in SliceInputs :
        Returns("<&Type>::try_from(&[u8])", input, Type_try_from_bytes(input))

TypeTryFromStr ==
    \E input \in StrInputs :
        Returns("<&Type>::try_from(&str)", input, Type_try_from_str(input))

TypeDeserialize ==
    /\ options.foreign.serde
    /\ \E input \in StrInputs :
        Returns("<&Type>::deserialize", input, Type_deserialize(input))

TypeAsStr ==
    /\ LiveWrapper
    /\ Returns("Type::as_str", live[1], Type_as_str(live[1]))

TypeAsBytes ==
    /\ LiveWrapper
    /\ Returns("Type::as_bytes", live[1], Type_as_bytes(live[1]))

TypeToOwned ==
    /\ HasOwned /\ LiveWrapper
    /\ Returns("Type::to_owned", live[1], Type_to_owned(live[1]))

OwnedNew ==
    /\ HasOwned
    /\ \E input \in OwnedType_new_inputs :
        Returns("OwnedType::new", input, OwnedType_new(input))

OwnedFromBytes ==
    /\ HasOwned
    /\ \E input \in VecInputs :
        Returns("OwnedType::from_bytes", input, OwnedType_from_bytes(input))

OwnedFromString ==
    /\ HasOwned
    /\ \E input \in StringInputs :
        Returns("OwnedType::from_string", input, OwnedType_from_string(input))

OwnedTryFromVec ==
    /\ HasOwned
    /\ \E input \in VecInputs :
        Returns("OwnedType::try_from(Vec<u8>)", input, OwnedType_try_from_vec(input))

OwnedTryFromString ==
    /\ HasOwned
    /\ \E input \in StringInputs :
        Returns("OwnedType::try_from(String)", input, OwnedType_try_from_string(input))

OwnedFromStr ==
    /\ HasOwned
    /\ \E input \in StrInputs :
        Returns("OwnedType::from_str", input, OwnedType_from_str(input))

OwnedDeserialize ==
    /\ HasOwned /\ options.foreign.serde
    /\ \E input \in StringInputs :
        Returns("OwnedType::deserialize", input, OwnedType_deserialize(input))

\* Outside the generated code the tuple constructor is usable only when the
\* field is `pub`.
OwnedLiteral ==
    /\ HasOwned /\ field_vis = "pub"
    /\ \E input \in StringInputs :
        Returns("OwnedType(String)", input, Direct(OwnedType_literal(input)))

\* Deref, Borrow<Type> and AsRef<Type> all return self.as_{type}().
OwnedAsRef ==
    /\ HasOwned /\ LiveOwned
    /\ Returns("OwnedType::as_ref", live[1], Direct(OwnedType_as_ref(live[1])))

OwnedAsStr ==
    /\ HasOwned /\ LiveOwned
    /\ Returns("OwnedType::as_str", live[1], OwnedType_as_str(live[1]))

OwnedAsBytes ==
    /\ HasOwned /\ LiveOwned
    /\ Returns("OwnedType::as_bytes", live[1], OwnedType_as_bytes(live[1]))

OwnedIntoString ==
    /\ HasOwned /\ LiveOwned
    /\ Consumes("OwnedType::into_string", live[1], OwnedType_into_string(live[1]))

OwnedIntoBytes ==
    /\ HasOwned /\ LiveOwned
    /\ Consumes("OwnedType::into_bytes", live[1], OwnedType_into_bytes(live[1]))

OwnedClone ==
    /\ HasOwned /\ LiveOwned
    /\ Returns("OwnedType::clone", live[1], OwnedType_clone(live[1]))

\* The user's `&'static Type: Default` is a wrapper built by the safe
\* constructors: the live one.
OwnedDefault ==
    /\ HasOwned /\ options.owned[1].derives.default /\ LiveWrapper
    /\ Returns("OwnedType::default", live[1], OwnedType_default(live[1]))

Next ==
    \/ TypeNew \/ TypeFromBytes \/ TypeFromStr \/ TypeTryFromBytes \/ TypeTryFromStr
    \/ TypeDeserialize \/ TypeAsStr \/ TypeAsBytes \/ TypeToOwned
    \/ OwnedNew \/ OwnedFromBytes \/ OwnedFromString \/ OwnedTryFromVec
    \/ OwnedTryFromString \/ OwnedFromStr \/ OwnedDeserialize \/ OwnedLiteral
    \/ OwnedAsRef \/ OwnedAsStr \/ OwnedAsBytes \/ OwnedIntoString \/ OwnedIntoBytes
    \/ OwnedClone \/ OwnedDefault

Spec == Init /\ [][Next]_vars

(***************************************************************************)
(* Properties of the generated code.                                       *)
(***************************************************************************)

Fallible == ~options.infallible

ByteValidated ==
    {"Type::new", "Type::from_bytes",
     "OwnedType::new", "OwnedType::from_bytes", "OwnedType::from_string"}

\* C1: in fallible mode every constructor returns a Result that is a failure
\* exactly when its own validation predicate rejects the input: validate_bytes
\* for Type::new, Type::from_bytes and OwnedType::new / from_bytes /
\* from_string, validate_str for Type::from_str.
C1_FailsIffRejected ==
    Fallible =>
        /\ ret.op \in ByteValidated =>
            /\ ret.res.tag \in {"Ok", "Err"}
            /\ (ret.res.tag = "Err") <=> ~validate_bytes(ret.input.v)
        /\ ret.op = "Type::from_str" =>
            /\ ret.res.tag \in {"Ok", "Err"}
            /\ (ret.res.tag = "Err") <=> ~validate_str(ret.input.v)

\* Type::from_str has rejected a text whose bytes validate_bytes accepts.
C1_Witness ==
    /\ Fallible
    /\ ret.op = "Type::from_str" /\ ret.res.tag = "Err"
    /\ validate_bytes(ret.input.v)

\* The two validation methods agree as far as the owned type needs: a text
\* validate_str accepts has bytes validate_bytes accepts.
StrImpliesBytes == \A s \in StrBytes : validate_str(s) => validate_bytes(s)

OwnedValid == LiveOwned => validate_bytes(live[1].v)

AccessorOnValid == ret.op = "OwnedType::as_ref" => validate_bytes(ret.input.v)

\* C2, as amended: in fallible mode, provided validate_str accepts only texts
\* whose bytes validate_bytes accepts, every owned value the safe operations
\* produce holds a buffer validate_bytes accepts, and so does every buffer the
\* borrowing accessor is applied to; the field is private exactly when the
\* mode is fallible.
C2_OwnedValidIfConsistent ==
    /\ (Fallible /\ StrImpliesBytes) => (OwnedValid /\ AccessorOnValid)
    /\ (field_vis = "private") <=> Fallible

\* An owned value made by to_owned, under a validate_bytes that rejects inputs.
C2_Witness ==
    /\ Fallible /\ StrImpliesBytes /\ validator.bytes = "all_f"
    /\ ret.op = "Type::to_owned" /\ LiveOwned

\* C2, as stated: in fallible mode every owned value holds a buffer
\* validate_bytes accepts, whatever the two validation methods are.
C2_AsStated ==
    /\ Fallible => (OwnedValid /\ AccessorOnValid)
    /\ (field_vis = "private") <=> Fallible

\* C3, as stated: in infallible mode Type::new, Type::from_bytes and
\* Type::from_str return the reference directly, never a Result.
C3_NoResultWhenInfallible ==
    (options.infallible /\ ret.op \in {"Type::new", "Type::from_bytes", "Type::from_str"})
        => ret.res.tag = "Direct"

ByteConstructors ==
    {"Type::new", "Type::from_bytes", "OwnedType::new", "OwnedType::from_bytes"}

\* The bytes each byte-sequence accessor reads back from a value.
ReadBack(val) ==
    IF val.ty = "Type"
    THEN {Type_as_bytes(val).val.v}
    ELSE {OwnedType_as_bytes(val).val.v, OwnedType_into_bytes(val).val.v}

\* C6: constructing from a byte sequence validate_bytes accepts succeeds and
\* the byte-sequence accessors (as_bytes, into_bytes) read back exactly the
\* input; an accessor call returns the bytes of the value it is called on.
C6_RoundTrip ==
    /\ ret.op \in ByteConstructors =>
        /\ (Fallible /\ validate_bytes(ret.input.v)) => ret.res.tag = "Ok"
        /\ Yielded(ret.res) => ReadBack(ret.res.val) = {ret.input.v}
        /\ Yielded(ret.res) => live = <<ret.res.val>>
    /\ ret.op \in {"Type::as_bytes", "OwnedType::as_bytes", "OwnedType::into_bytes"} =>
        ret.res.val.v = ret.input.v

\* An owned value built from accepted bytes that are not UTF-8.
C6_Witness ==
    /\ Fallible
    /\ ret.op = "OwnedType::from_bytes" /\ ret.res.tag = "Ok"
    /\ ~from_utf8_ok(ret.input.v) /\ Len(ret.input.v) = MaxLen

(***************************************************************************)
(* Comparisons at run time.                                                *)
(***************************************************************************)

Range(f) == {f[i] : i \in DOMAIN f}

\* The values of a foreign type.
InputsOf(T) ==
    CASE T = "str" -> StrInputs
      [] T = "[u8]" -> SliceInputs
      [] T = "String" -> StringInputs
      [] T = "Vec<u8>" -> VecInputs

\* eq impls are generated for foreign.eq chained with foreign.ord, ord impls
\* for foreign.ord.
EqTypes == Range(options.foreign.eq \o options.foreign.ord)
OrdTypes == Range(options.foreign.ord)

\* The owned values the safe constructor yields.
OwnedValues ==
    {r.val : r \in {x \in {OwnedType_new(i) : i \in OwnedType_new_inputs} : Yielded(x)}}

\* The wrapper values the safe constructors yield.
TypeValues ==
    {r.val : r \in {x \in {Type_new(i) : i \in Type_new_inputs}
                            \cup {Type_from_str(i) : i \in StrInputs} : Yielded(x)}}

CmpInit ==
    /\ options \in {RunOptions(inf) : inf \in BOOLEAN}
    /\ validator \in IF options.infallible
                      THEN {[bytes |-> "any", str |-> "any"]}
                      ELSE [bytes : ValidateBytesKinds, str : {"delegate"}]
    \* PartialOrd must agree with PartialEq, so the two are written alike.
    /\ impls \in {[eq |-> k, ord |-> k, hash |-> h] :
                     k \in {"derived", "custom"}, h \in {"derived", "custom"}}
    /\ live = <<>>
    /\ ret = NoCall
    /\ applied = <<>>
    /\ status = "generated"
    /\ output = <<>>

TypeEqForeign ==
    /\ LiveWrapper
    /\ \E T \in EqTypes : \E f \in InputsOf(T) :
        Returns("Type == T", f, Direct(Val("bool", Type_eq_foreign(live[1], f))))

ForeignEqType ==
    /\ LiveWrapper
    /\ \E T \in EqTypes : \E f \in InputsOf(T) :
        Returns("T == Type", f, Direct(Val("bool", Foreign_eq_Type(f, live[1]))))

TypePartialCmpForeign ==
    /\ LiveWrapper
    /\ \E T \in OrdTypes : \E f \in InputsOf(T) :
        Returns("Type.partial_cmp(T)", f,
                Direct(Val("Option<Ordering>", Type_partial_cmp_foreign(live[1], f))))

ForeignPartialCmpType ==
    /\ LiveWrapper
    /\ \E T \in OrdTypes : \E f \in InputsOf(T) :
        Returns("T.partial_cmp(Type)", f,
                Direct(Val("Option<Ordering>", Foreign_partial_cmp_Type(f, live[1]))))

OwnedEq ==
    /\ HasOwned /\ options.owned[1].derives.partial_eq /\ LiveOwned
    /\ \E b \in OwnedValues :
        Returns("OwnedType == OwnedType", b, Direct(Val("bool", OwnedType_eq(live[1], b))))

OwnedHash ==
    /\ HasOwned /\ options.owned[1].derives.hash /\ LiveOwned
    /\ Returns("OwnedType::hash", live[1], Direct(Val("hash", OwnedType_hash(live[1]))))

CmpNext ==
    \/ TypeNew \/ OwnedNew
    \/ TypeEqForeign \/ ForeignEqType \/ TypePartialCmpForeign \/ ForeignPartialCmpType
    \/ OwnedEq \/ OwnedHash

CmpSpec == CmpInit /\ [][CmpNext]_vars

\* C4: in fallible mode `w == f` and `f == w` are booleans: false when no
\* wrapper can be constructed from f (validate_bytes rejects its bytes), and
\* otherwise the wrapper equality of w with the wrapper holding f's bytes.
C4_ForeignEqTotal ==
    Fallible =>
        /\ ret.op = "Type == T" =>
            /\ ret.res.val.v \in BOOLEAN
            /\ ret.res.val.v =
                 IF validate_bytes(ret.input.v)
                 THEN Type_eq(live[1], Val("Type", ret.input.v)) ELSE FALSE
        /\ ret.op = "T == Type" =>
            /\ ret.res.val.v \in BOOLEAN
            /\ ret.res.val.v =
                 IF validate_bytes(ret.input.v)
                 THEN Type_eq(Val("Type", ret.input.v), live[1]) ELSE FALSE

\* `w == f` evaluated on a foreign value no wrapper can be constructed from.
C4_Witness ==
    /\ Fallible /\ ret.op = "Type == T"
    /\ ~validate_bytes(ret.input.v) /\ ret.res.val.v = FALSE

\* C5: in fallible mode w.partial_cmp(f) and f.partial_cmp(w) are None when no
\* wrapper can be constructed from f, and otherwise the wrapper-to-wrapper
\* partial ordering, operands in the same order.
C5_ForeignOrdIncomparable ==
    Fallible =>
        /\ ret.op = "Type.partial_cmp(T)" =>
            ret.res.val.v =
                IF validate_bytes(ret.input.v)
                THEN Type_partial_cmp(live[1], Val("Type", ret.input.v)) ELSE None
        /\ ret.op = "T.partial_cmp(Type)" =>
            ret.res.val.v =
                IF validate_bytes(ret.input.v)
                THEN Type_partial_cmp(Val("Type", ret.input.v), live[1]) ELSE None

\* f.partial_cmp(w) evaluated on a foreign value no wrapper can be constructed
\* from, under a derived (total) ordering of Type.
C5_Witness ==
    /\ Fallible /\ ret.op = "T.partial_cmp(Type)" /\ impls.ord = "derived"
    /\ ~validate_bytes(ret.input.v) /\ ret.res.val.v = None

\* Type's own Hash agrees with its own PartialEq.
TypeHashConsistent ==
    \A x \in TypeValues : \A y \in TypeValues : Type_eq(x, y) => Type_hash(x) = Type_hash(y)

\* C7: with derive(Hash) and derive(PartialEq) on the owned type and Type's
\* Hash consistent with Type's PartialEq, owned values that compare equal
\* hash identically.
C7_OwnedHashConsistent ==
    (/\ HasOwned /\ options.owned[1].derives.hash /\ options.owned[1].derives.partial_eq
     /\ TypeHashConsistent /\ LiveOwned)
        => \A b \in OwnedValues :
             OwnedType_eq(live[1], b) => OwnedType_hash(live[1]) = OwnedType_hash(b)

\* Two owned values with different bytes compared equal, under a Hash
\* consistent with a hand-written PartialEq.
C7_Witness ==
    /\ TypeHashConsistent /\ impls.eq = "custom"
    /\ ret.op = "OwnedType == OwnedType" /\ ret.res.val.v = TRUE
    /\ LiveOwned /\ ret.input.v # live[1].v

(***************************************************************************)
(* Attributes (derive/src/attribute.rs) and Options::apply.                *)
(***************************************************************************)

\* Attributes applied to one declaration at most.
MaxAttrs == 3

\* A parsed Attribute: `types` for Eq / Ord, `text` for Name, `attrs` for Owned.
Attribute(kind, text, types, attrs) ==
    [kind |-> kind, text |-> text, types |-> types, attrs |-> attrs]
Name(text) == Attribute("Name", text, <<>>, <<>>)
Owned(attrs) == Attribute("Owned", <<>>, <<>>, attrs)
Eq(types) == Attribute("Eq", <<>>, types, <<>>)
Ord(types) == Attribute("Ord", <<>>, types, <<>>)
Serde == Attribute("Serde", <<>>, <<>>, <<>>)
NoDeref == Attribute("NoDeref", <<>>, <<>>, <<>>)
Infallible == Attribute("Infallible", <<>>, <<>>, <<>>)

\* A parsed OwnedTypeAttribute.
Ident(i) == [kind |-> "Ident", ident |-> i, ds |-> <<>>]
Derive(ds) == [kind |-> "Derive", ident |-> "", ds |-> ds]

\* A sub-attribute as written: its leading identifier, then what follows it
\* (`after` is "" for nothing, "=" for `= "text"`, "()" for a parenthesized
\* list of `types` or of owned sub-attributes `attrs`). Strings that the code
\* concatenates are sequences of one-character strings.
Written(ident, after, text, types, attrs) ==
    [ident |-> ident, after |-> after, text |-> text, types |-> types, attrs |-> attrs]

\* An owned sub-attribute as written: an identifier, or `derive(ds)`.
WrittenOwned(ident, ds) == [ident |-> ident, ds |-> ds]

\* The sub-attributes a declaration is given here: the well-formed ones, then
\* an unknown name, an unsupported trait and a missing parenthesized list.
Tokens ==
    {Written("name", "=", <<"a">>, <<>>, <<>>),
     Written("name", "=", <<"B">>, <<>>, <<>>),
     Written("owned", "()", <<>>, <<>>, <<WrittenOwned("Buf", <<>>)>>),
     Written("owned", "()", <<>>, <<>>,
             <<WrittenOwned("Buf", <<>>), WrittenOwned("derive", <<"PartialEq">>)>>),
     Written("owned", "()", <<>>, <<>>,
             <<WrittenOwned("derive", <<"Hash", "PartialEq", "Hash">>)>>),
     Written("owned", "()", <<>>, <<>>,
             <<WrittenOwned("Buf2", <<>>), WrittenOwned("derive", <<"Default", "PartialOrd">>),
               WrittenOwned("derive", <<"Eq", "Ord">>)>>),
     Written("eq", "()", <<>>, <<"[u8]">>, <<>>),
     Written("eq", "()", <<>>, <<"str", "String">>, <<>>),
     Written("ord", "()", <<>>, <<"str">>, <<>>),
     Written("ord", "()", <<>>, <<"String">>, <<>>),
     Written("serde", "", <<>>, <<>>, <<>>),
     Written("no_deref", "", <<>>, <<>>, <<>>),
     Written("infallible", "", <<>>, <<>>, <<>>),
     Written("noderef", "", <<>>, <<>>, <<>>),
     Written("owned", "()", <<>>, <<>>,
             <<WrittenOwned("Buf", <<>>), WrittenOwned("derive", <<"Hash", "Clone">>)>>),
     Written("owned", "", <<>>, <<>>, <<>>)}

\* syn::parse::Result
Parsed(v) == [ok |-> TRUE, val |-> v, err |-> ""]
ParseError(msg) == [ok |-> FALSE, val |-> <<>>, err |-> msg]

\* impl Parse for Derive
Parse_Derive(ident) ==
    IF ident \in {"Default", "PartialEq", "Eq", "PartialOrd", "Ord", "Hash"}
    THEN Parsed(ident)
    ELSE ParseError("unsupported trait")

RECURSIVE Parse_Derives(_)
\* Punctuated::<Derive, _>::parse_terminated: the first error ends the parse.
Parse_Derives(ds) ==
    IF ds = <<>> THEN Parsed(<<>>)
    ELSE LET d == Parse_Derive(Head(ds))
             rest == Parse_Derives(Tail(ds))
         IN  IF ~d.ok THEN d
             ELSE IF ~rest.ok THEN rest
             ELSE Parsed(<<d.val>> \o rest.val)

\* impl Parse for OwnedTypeAttribute
Parse_OwnedTypeAttribute(w) ==
    IF w.ident = "derive"
    THEN LET ds == Parse_Derives(w.ds)
         IN  IF ds.ok THEN Parsed(Derive(ds.val)) ELSE ds
    ELSE Parsed(Ident(w.ident))

RECURSIVE Parse_OwnedTypeAttributes(_)
\* Punctuated::<OwnedTypeAttribute, _>::parse_terminated
Parse_OwnedTypeAttributes(ws) ==
    IF ws = <<>> THEN Parsed(<<>>)
    ELSE LET a == Parse_OwnedTypeAttribute(Head(ws))
             rest == Parse_OwnedTypeAttributes(Tail(ws))
         IN  IF ~a.ok THEN a
             ELSE IF ~rest.ok THEN rest
             ELSE Parsed(<<a.val>> \o rest.val)

\* impl Parse for Attribute
Parse_Attribute(w) ==
    CASE w.ident = "no_deref" -> Parsed(NoDeref)
      [] w.ident = "infallible" -> Parsed(Infallible)
      [] w.ident = "name" ->
            IF w.after = "=" THEN Parsed(Name(w.text)) ELSE ParseError("expected =")
      [] w.ident = "owned" ->
            IF w.after # "()" THEN ParseError("expected parentheses")
            ELSE LET attrs == Parse_OwnedTypeAttributes(w.attrs)
                 IN  IF attrs.ok THEN Parsed(Owned(attrs.val)) ELSE attrs
      [] w.ident = "eq" ->
            IF w.after = "()" THEN Parsed(Eq(w.types)) ELSE ParseError("expected parentheses")
      [] w.ident = "ord" ->
            IF w.after = "()" THEN Parsed(Ord(w.types)) ELSE ParseError("expected parentheses")
      [] w.ident = "serde" -> Parsed(Serde)
      [] OTHER -> ParseError("unknown attribute")

RECURSIVE Parse_Attributes(_)
\* impl Parse for Attributes: Punctuated::parse_terminated
Parse_Attributes(ws) ==
    IF ws = <<>> THEN Parsed(<<>>)
    ELSE LET a == Parse_Attribute(Head(ws))
             rest == Parse_Attributes(Tail(ws))
         IN  IF ~a.ok THEN a
             ELSE IF ~rest.ok THEN rest
             ELSE Parsed(<<a.val>> \o rest.val)

\* syn::Meta of a `newtype` attribute: `#[newtype]`, `#[newtype = ..]`, or a
\* list `#[newtype(..)]`, `#[newtype[..]]`, `#[newtype{..}]`.
Path == [form |-> "Path", delimiter |-> "", tokens |-> <<>>]
NameValue == [form |-> "NameValue", delimiter |-> "", tokens |-> <<>>]
List(delimiter, tokens) == [form |-> "List", delimiter |-> delimiter, tokens |-> tokens]

\* The sub-attributes written second in a list, or between other delimiters
\* than parentheses: a known one and an unknown one.
FewTokens ==
    {Written("serde", "", <<>>, <<>>, <<>>), Written("noderef", "", <<>>, <<>>, <<>>)}

\* The `newtype` attributes a declaration is given here: the two forms that
\* are not lists, and lists of one or two sub-attributes between parentheses,
\* of one between brackets or braces.
Metas ==
    {Path, NameValue}
    \cup {List("()", <<w>>) : w \in Tokens}
    \cup {List("()", <<w1, w2>>) : w1 \in Tokens, w2 \in FewTokens}
    \cup {List(d, <<w>>) : d \in {"[]", "{}"}, w \in FewTokens}

\* The parsed attributes: what Options::apply is given.
Attributes == {Parse_Attribute(w).val : w \in {t \in Tokens : Parse_Attribute(t).ok}}

\* derives!: the field of each variant.
DeriveField(d) ==
    CASE d = "Default" -> "default"
      [] d = "PartialEq" -> "partial_eq"
      [] d = "Eq" -> "eq"
      [] d = "PartialOrd" -> "partial_ord"
      [] d = "Ord" -> "ord"
      [] d = "Hash" -> "hash"

\* Derives::insert
Derives_insert(self, d) == [self EXCEPT ![DeriveField(d)] = TRUE]

\* Derives::append overwriting the flags with the later fragment's.
Derives_append_overwriting(self, other) == other

\* Derives::append
Derives_append(self, other) == [f \in DOMAIN self |-> self[f] \/ other[f]]

\* DerivesIter::next, run to the end: the set variants, in declaration order.
Derives_iter(self) ==
    LET order == <<"Default", "PartialEq", "Eq", "PartialOrd", "Ord", "Hash">>
    IN  SelectSeq(order, LAMBDA d : self[DeriveField(d)])

RECURSIVE InsertAll(_, _)
\* for d in ds { derives.insert(d) }
InsertAll(derives, ds) ==
    IF ds = <<>> THEN derives ELSE InsertAll(Derives_insert(derives, Head(ds)), Tail(ds))

RECURSIVE OwnedAttrs(_, _)
\* The loop of the Attribute::Owned arm over its sub-attributes.
OwnedAttrs(acc, attrs) ==
    IF attrs = <<>> THEN acc
    ELSE LET a == Head(attrs)
         IN  OwnedAttrs(
                 IF a.kind = "Ident"
                 THEN [acc EXCEPT !.ident = Some(a.ident)]
                 ELSE [acc EXCEPT !.derives = InsertAll(acc.derives, a.ds)],
                 Tail(attrs))

\* Vec::extend that skips the types already listed.
extend_dedup(vec, types) ==
    vec \o SelectSeq(types, LAMBDA t : \A i \in DOMAIN vec : vec[i] # t)

\* Vec::extend
extend(vec, types) == vec \o types

Applied(opts) == [panic |-> FALSE, options |-> opts]
Panicked(opts) == [panic |-> TRUE, options |-> opts]

\* Options::apply: the options after the attribute, or the todo!() panic.
Options_apply(self, attr) ==
    CASE attr.kind = "Name" ->
            Applied([self EXCEPT !.name =
                IF self.name # <<>> THEN Some(self.name[1] \o attr.text) ELSE Some(attr.text)])
      [] attr.kind = "Owned" ->
            LET acc == OwnedAttrs([ident |-> None, derives |-> Derives_default], attr.attrs)
            IN  IF self.owned # <<>>
                THEN Applied([self EXCEPT !.owned = Some(
                        [ident |-> IF acc.ident # None THEN acc.ident[1] ELSE self.owned[1].ident,
                         derives |-> Derives_append(self.owned[1].derives, acc.derives)])])
                ELSE IF acc.ident # None
                     THEN Applied([self EXCEPT !.owned =
                            Some([ident |-> acc.ident[1], derives |-> acc.derives])])
                     ELSE Panicked(self)
      [] attr.kind = "Eq" ->
            Applied([self EXCEPT !.foreign.eq = extend(self.foreign.eq, attr.types)])
      [] attr.kind = "Ord" ->
            Applied([self EXCEPT !.foreign.ord = extend(self.foreign.ord, attr.types)])
      [] attr.kind = "Serde" -> Applied([self EXCEPT !.foreign.serde = TRUE])
      [] attr.kind = "NoDeref" -> Applied([self EXCEPT !.no_deref = TRUE])
      [] attr.kind = "Infallible" -> Applied([self EXCEPT !.infallible = TRUE])

RECURSIVE Resolve(_, _)
\* derive: `for attr in attrs.0 { options.apply(attr)?; }` from the given options.
Resolve(opts, attrs) ==
    IF attrs = <<>> THEN Applied(opts)
    ELSE LET r == Options_apply(opts, Head(attrs))
         IN  IF r.panic THEN r ELSE Resolve(r.options, Tail(attrs))

(***************************************************************************)
(* The synthesizer (derive/src/new_type.rs): the generated items, in the   *)
(* order of the token stream.                                              *)
(***************************************************************************)

\* `impl name<arg> for self`, `fn self::name(..) -> arg`, `struct name(arg)`;
\* `text` is the string literal the item embeds or, for a fn whose body is
\* modelled, the type of the body's tail expression.
Item(kind, name, arg, self, text) ==
    [kind |-> kind, name |-> name, arg |-> arg, self |-> self, text |-> text]
Impl(trait, arg, self) == Item("impl", trait, arg, self, "")
Fn(self, name, returns) == Item("fn", name, returns, self, "")
FnBody(self, name, returns, body) == Item("fn", name, returns, self, body)

RECURSIVE Concat(_)
\* The string made of the given characters.
Concat(chars) == IF chars = <<>> THEN "" ELSE Head(chars) \o Concat(Tail(chars))

\* char::to_lowercase on the letters that occur.
LowerChar(c) ==
    CASE c = "T" -> "t"
      [] c = "B" -> "b"
      [] OTHER -> c

\* str::to_lowercase
to_lowercase(chars) == [i \in DOMAIN chars |-> LowerChar(chars[i])]

\* The identifier of the declaration the macro is applied to.
TypeIdent == <<"T", "y", "p", "e">>

\* Options::name defaulting to the identifier as written.
Options_name_as_written(self, ident) ==
    IF self.name # <<>> THEN self.name[1] ELSE ident

\* Options::name
Options_name(self, ident) ==
    IF self.name # <<>> THEN self.name[1] ELSE to_lowercase(ident)

RECURSIVE Dedup(_)
\* The sequence without the later occurrences of its elements.
Dedup(seq) ==
    IF seq = <<>> THEN <<>>
    ELSE LET init == SubSeq(seq, 1, Len(seq) - 1)
         IN  IF \E i \in DOMAIN init : init[i] = seq[Len(seq)]
             THEN Dedup(init)
             ELSE Append(Dedup(init), seq[Len(seq)])

\* The foreign types that get an equality pair, each taken once.
eq_types_once(opts) == Dedup(opts.foreign.eq \o opts.foreign.ord)

\* The foreign types that get an equality pair: eq only, without the ord types.
eq_types_unchained(opts) == opts.foreign.eq

\* options.foreign.eq.iter().chain(&options.foreign.ord)
eq_types(opts) == opts.foreign.eq \o opts.foreign.ord

\* options.foreign.ord.iter()
ord_types(opts) == opts.foreign.ord

RECURSIVE Flatten(_)
\* #(#items)* : the items generated for each element, concatenated.
Flatten(seqs) ==
    IF seqs = <<>> THEN <<>> ELSE Head(seqs) \o Flatten(Tail(seqs))

\* partial_eq_impl (the two impls have the same shape in both modes)
partial_eq_impl(ident, ty) == <<Impl("PartialEq", ty, ident), Impl("PartialEq", ident, ty)>>

\* partial_ord_impl
partial_ord_impl(ident, ty) == <<Impl("PartialOrd", ty, ident), Impl("PartialOrd", ident, ty)>>

\* owned_partial_eq_impl
owned_partial_eq_impl(owned_ident, ty) ==
    <<Impl("PartialEq", ty, owned_ident), Impl("PartialEq", owned_ident, ty)>>

\* owned_partial_ord_impl
owned_partial_ord_impl(owned_ident, ty) ==
    <<Impl("PartialOrd", ty, owned_ident), Impl("PartialOrd", owned_ident, ty)>>

\* Derive::generate
Derive_generate(d, ident, owned_ident, foreign) ==
    LET ref == "&" \o ident
    IN  CASE d = "Default" -> <<Impl("Default", "", owned_ident)>>
          [] d = "PartialEq" ->
                <<Impl("PartialEq", owned_ident, owned_ident),
                  Impl("PartialEq", ident, owned_ident),
                  Impl("PartialEq", ref, owned_ident),
                  Impl("PartialEq", owned_ident, ident),
                  Impl("PartialEq", owned_ident, ref)>>
                \o Flatten([i \in DOMAIN (foreign.eq \o foreign.ord) |->
                    owned_partial_eq_impl(owned_ident, (foreign.eq \o foreign.ord)[i])])
          [] d = "Eq" -> <<Impl("Eq", "", owned_ident)>>
          [] d = "PartialOrd" ->
                <<Impl("PartialOrd", owned_ident, owned_ident),
                  Impl("PartialOrd", ident, owned_ident),
                  Impl("PartialOrd", ref, owned_ident),
                  Impl("PartialOrd", owned_ident, ident),
                  Impl("PartialOrd", owned_ident, ref)>>
                \o Flatten([i \in DOMAIN foreign.ord |->
                    owned_partial_ord_impl(owned_ident, foreign.ord[i])])
          [] d = "Ord" -> <<Impl("Ord", "", owned_ident)>>
          [] d = "Hash" -> <<Impl("Hash", "", owned_ident)>>

\* derive_owned_type; `error` is None or Some(the error type's identifier).
derive_owned_type(name, ident, owned_options, foreign, error) ==
    LET owned_ident == owned_options.ident
        ref == "&" \o ident
        ds == Derives_iter(owned_options.derives)
        derives == Flatten([i \in DOMAIN ds |->
                        Derive_generate(ds[i], ident, owned_ident, foreign)])
        constructor ==
            IF error # None
            THEN <<Fn(owned_ident, "new", "Result<Self, " \o error[1] \o "<T>>"),
                   Fn(owned_ident, "from_bytes", "Result<Self, " \o error[1] \o "<Vec<u8>>>"),
                   Fn(owned_ident, "from_string", "Result<Self, " \o error[1] \o ">"),
                   Fn(owned_ident, "unsafe new_unchecked", "Self"),
                   Fn(owned_ident, "as_ref", ref),
                   Impl("TryFrom", "Vec<u8>", owned_ident),
                   Impl("TryFrom", "String", owned_ident),
                   Impl("FromStr", "", owned_ident)>>
            ELSE <<Fn(owned_ident, "new", "Self"),
                   Fn(owned_ident, "from_string", "Self"),
                   Fn(owned_ident, "from_bytes", "Result<Self, FromUtf8Error>"),
                   Fn(owned_ident, "as_ref", ref),
                   Impl("TryFrom", "Vec<u8>", owned_ident),
                   Impl("From", "String", owned_ident),
                   Impl("FromStr", "", owned_ident)>>
        serialize == IF foreign.serde THEN <<Impl("Serialize", "", owned_ident)>> ELSE <<>>
        deserialize ==
            IF foreign.serde
            THEN <<Impl("Deserialize", "", owned_ident),
                   FnBody(owned_ident, "deserialize", "Result<Self, D::Error>",
                          \* OwnedType::new(..).map_err(..) / deserialize(..).map(Self)?
                          IF error # None THEN "Result<Self, D::Error>" ELSE "Self")>>
            ELSE <<>>
        vis == IF error = None THEN "pub " ELSE ""
    IN  <<Item("struct", owned_ident, vis \o "String", "", "Owned " \o name \o "."),
          Impl("Clone", "", owned_ident)>>
        \o constructor
        \o <<Fn(owned_ident, "as_str", "&str"),
             Fn(owned_ident, "as_bytes", "&[u8]"),
             Fn(owned_ident, "into_string", "String"),
             Fn(owned_ident, "into_bytes", "Vec<u8>"),
             Impl("Borrow", ident, owned_ident),
             Impl("ToOwned", owned_ident, ident),
             Impl("Deref", ident, owned_ident),
             Impl("AsRef", ident, owned_ident),
             Impl("AsRef", "str", owned_ident),
             Impl("AsRef", "[u8]", owned_ident),
             Impl("Debug", "", owned_ident),
             Impl("Display", "", owned_ident),
             Impl("From", owned_ident, "String"),
             Impl("From", owned_ident, "Vec<u8>")>>
        \o serialize \o deserialize \o derives

\* derive_with_options
derive_with_options(ident_chars, opts) ==
    LET ident == Concat(ident_chars)
        ref == "&" \o ident
        error == IF ~opts.infallible THEN Some("Invalid" \o ident) ELSE None
        name == Concat(Options_name(opts, ident_chars))
        deref == IF ~opts.no_deref THEN <<Impl("Deref", "str", ident)>> ELSE <<>>
        owned_type ==
            IF opts.owned # <<>>
            THEN derive_owned_type(name, ident, opts.owned[1], opts.foreign, error)
            ELSE <<>>
        eq == Flatten([i \in DOMAIN eq_types(opts) |-> partial_eq_impl(ident, eq_types(opts)[i])])
        ord == Flatten([i \in DOMAIN ord_types(opts) |-> partial_ord_impl(ident, ord_types(opts)[i])])
        serialize == IF opts.foreign.serde THEN <<Impl("Serialize", "", ident)>> ELSE <<>>
        deserialize ==
            IF opts.foreign.serde
            THEN <<Impl("Deserialize", "", ref),
                   FnBody(ref, "deserialize", "Result<Self, D::Error>",
                          \* Type::from_str(..).map_err(..) / deserialize(..).map(Type::from_str)?
                          IF error # None THEN "Result<Self, D::Error>" ELSE "Self")>>
            ELSE <<>>
        constructor ==
            IF error # None
            THEN <<Item("struct", error[1], "pub T", "", "Invalid " \o name \o " error."),
                   Impl("Debug", "", error[1]),
                   Item("impl", "Display", "", error[1], "invalid " \o name \o ": "),
                   Impl("Error", "", error[1]),
                   Fn(ident, "new", "Result<&Self, " \o error[1] \o "<&T>>"),
                   Fn(ident, "from_bytes", "Result<&Self, " \o error[1] \o "<&[u8]>>"),
                   Fn(ident, "from_str", "Result<&Self, " \o error[1] \o "<&str>>"),
                   Fn(ident, "unsafe new_unchecked_from_bytes", "&Self"),
                   Fn(ident, "unsafe new_unchecked", "&Self"),
                   Impl("TryFrom", "&[u8]", ref),
                   Impl("TryFrom", "&str", ref)>>
            ELSE <<Fn(ident, "new", "&Self"),
                   Fn(ident, "from_bytes", "Result<&Self, Utf8Error>"),
                   Fn(ident, "from_str", "&Self"),
                   Impl("TryFrom", "&[u8]", ref),
                   Impl("From", "&str", ref)>>
    IN  constructor
        \o <<Fn(ident, "as_str", "&str"),
             Fn(ident, "as_bytes", "&[u8]"),
             Impl("AsRef", ident, ident),
             Impl("AsRef", "str", ident),
             Impl("AsRef", "[u8]", ident),
             Impl("Display", "", ident),
             Impl("Debug", "", ident),
             Impl("Borrow", "str", ident),
             Impl("From", ref, "&str"),
             Impl("From", ref, "&[u8]")>>
        \o deref \o eq \o ord \o serialize \o deserialize \o owned_type

(***************************************************************************)
(* One run of the macro on `struct Type(str)`: the attributes are applied  *)
(* one by one, then the items are generated.                               *)
(***************************************************************************)

GenInit ==
    /\ options = Options_default
    /\ applied = <<>>
    /\ status = "resolving"
    /\ output = <<>>
    /\ validator = [bytes |-> "any", str |-> "any"]
    /\ impls = [eq |-> "derived", ord |-> "derived", hash |-> "derived"]
    /\ live = <<>>
    /\ ret = NoCall

\* extract_attributes going on to the next attribute when one is not a list.
InvalidAttribute_skipped == Ok(Unit)

\* `_ => return Err(Error::InvalidAttribute(attr.span()))`
InvalidAttribute == Err("InvalidAttribute", "")

\* extract_attributes, one `newtype` attribute: a list is parsed whole, then
\* derive's closure applies its attributes one by one. The outcome is Ok(()),
\* Err(..), or a panic.
extract_attribute(opts, meta) ==
    IF meta.form = "List"
    THEN LET newtype_attrs == Parse_Attributes(meta.tokens)
         IN  IF ~newtype_attrs.ok
             THEN [res |-> Err("Syn", newtype_attrs.err), options |-> opts, applied |-> <<>>]
             ELSE LET r == Resolve(opts, newtype_attrs.val)
                  IN  [res |-> IF r.panic THEN [tag |-> "panic", err |-> "not yet implemented",
                                                val |-> Unit]
                               ELSE Ok(Unit),
                       options |-> r.options, applied |-> newtype_attrs.val]
    ELSE [res |-> InvalidAttribute, options |-> opts, applied |-> <<>>]

\* One iteration of extract_attributes's loop, with derive's closure.
Apply ==
    /\ status = "resolving"
    /\ \E meta \in Metas :
        /\ Len(applied) + Len(meta.tokens) <= MaxAttrs
        /\ LET r == extract_attribute(options, meta)
           IN  /\ applied' = applied \o r.applied
               /\ options' = r.options
               /\ status' = CASE r.res.tag = "Ok" -> "resolving"
                              [] r.res.tag = "Err" -> "error"
                              [] OTHER -> "panic"
               /\ ret' = [op |-> "extract_attributes", input |-> meta, res |-> r.res]
    /\ UNCHANGED <<output, validator, impls, live>>

\* derive, after the loop: Ok(derive_with_options(input.ident, &options))
Generate ==
    /\ status = "resolving"
    /\ output' = derive_with_options(TypeIdent, options)
    /\ status' = "derived"
    /\ ret' = [op |-> "derive", input |-> Unit, res |-> Ok(Unit)]
    /\ UNCHANGED <<options, applied, validator, impls, live>>

GenNext == Apply \/ Generate

GenSpec == GenInit /\ [][GenNext]_vars

Emitted(item) == \E i \in DOMAIN output : output[i] = item

\* The configuration resolved from the applied attributes followed by
\* themselves.
Doubled == Resolve(Options_default, applied \o applied)

SameOwned(a, b) == a.owned = b.owned

\* C8, as amended: when the applied attributes F resolve, F followed by F
\* resolves too, to the same owned type and derive flags, and to foreign_eq
\* and foreign_ord lists that are the once-resolved lists repeated twice.
C8_DoubledResolution ==
    status # "panic" =>
        /\ ~Doubled.panic
        /\ SameOwned(Doubled.options, options)
        /\ Doubled.options.foreign.eq = options.foreign.eq \o options.foreign.eq
        /\ Doubled.options.foreign.ord = options.foreign.ord \o options.foreign.ord

\* Resolved attributes that name foreign types and set derive flags.
C8_Witness ==
    /\ status = "resolving"
    /\ options.foreign.eq # <<>> /\ options.foreign.ord # <<>>
    /\ options.owned # <<>> /\ options.owned[1].derives.partial_eq

\* C8, as stated: F followed by F resolves to the same foreign_eq, foreign_ord
\* and derive flags as F.
C8_AsStated ==
    status # "panic" =>
        /\ ~Doubled.panic
        /\ SameOwned(Doubled.options, options)
        /\ Doubled.options.foreign.eq = options.foreign.eq
        /\ Doubled.options.foreign.ord = options.foreign.ord

\* C9: for every type listed under ord, the borrowed type's output holds the
\* equality pair (Type == T, T == Type) and the ordering pair.
C9_OrdImpliesEq ==
    status = "derived" =>
        \A T \in Range(options.foreign.ord) :
            /\ Emitted(Impl("PartialEq", T, "Type")) /\ Emitted(Impl("PartialEq", "Type", T))
            /\ Emitted(Impl("PartialOrd", T, "Type")) /\ Emitted(Impl("PartialOrd", "Type", T))

\* Items generated for a type listed under ord and not under eq.
C9_Witness ==
    /\ status = "derived"
    /\ \E T \in Range(options.foreign.ord) :
        /\ T \notin Range(options.foreign.eq)
        /\ Emitted(Impl("PartialEq", T, "Type"))

\* C10, as stated: whenever an owned type is requested, its output holds the
\* equality pair for every type under eq and ord and the ordering pair for
\* every type under ord, whatever the derive flags.
C10_OwnedLatticeMirrored ==
    (status = "derived" /\ options.owned # <<>>) =>
        LET O == options.owned[1].ident
        IN  /\ \A T \in Range(options.foreign.eq \o options.foreign.ord) :
                Emitted(Impl("PartialEq", T, O)) /\ Emitted(Impl("PartialEq", O, T))
            /\ \A T \in Range(options.foreign.ord) :
                Emitted(Impl("PartialOrd", T, O)) /\ Emitted(Impl("PartialOrd", O, T))

\* An owned(...) attribute that supplies no identifier.
NoIdent(attr) ==
    attr.kind = "Owned" /\ \A i \in DOMAIN attr.attrs : attr.attrs[i].kind # "Ident"

\* The last `newtype` attribute handled was a list that parsed.
ParsedList ==
    /\ ret.op = "extract_attributes"
    /\ ret.input.form = "List"
    /\ Parse_Attributes(ret.input.tokens).ok

\* C11, as stated: an owned(...) fragment without identifier, met when no
\* owned type is established, makes resolution return an error value.
C11_MissingIdentIsErr ==
    (/\ ParsedList
     /\ options.owned = None
     /\ \E i \in DOMAIN Parse_Attributes(ret.input.tokens).val :
            NoIdent(Parse_Attributes(ret.input.tokens).val[i]))
        => ret.res.tag = "Err"

\* A sub-attribute that is invalid as written: an unknown name, a derive name
\* outside the six traits, or a name / owned / eq / ord without its argument.
InvalidToken(w) ==
    \/ w.ident \notin {"name", "owned", "eq", "ord", "serde", "no_deref", "infallible"}
    \/ w.ident = "name" /\ w.after # "="
    \/ w.ident \in {"owned", "eq", "ord"} /\ w.after # "()"
    \/ /\ w.ident = "owned"
       /\ \E i \in DOMAIN w.attrs :
            /\ w.attrs[i].ident = "derive"
            /\ \E j \in DOMAIN w.attrs[i].ds :
                w.attrs[i].ds[j] \notin {"Default", "PartialEq", "Eq", "PartialOrd", "Ord", "Hash"}

HasInvalidToken(meta) == \E i \in DOMAIN meta.tokens : InvalidToken(meta.tokens[i])

Constructors ==
    {"Type::new", "Type::from_bytes", "Type::from_str",
     "<&Type>::try_from(&[u8])", "<&Type>::try_from(&str)",
     "OwnedType::new", "OwnedType::from_bytes", "OwnedType::from_string",
     "OwnedType::try_from(Vec<u8>)", "OwnedType::try_from(String)"}

\* C13: in fallible mode a constructor that fails returns the error carrier
\* holding its input, unchanged: the same type and the same bytes.
C13_ErrorCarriesInput ==
    (Fallible /\ ret.op \in Constructors /\ ret.res.tag = "Err") =>
        /\ ret.res.err = "Invalid"
        /\ ret.res.val = ret.input

\* OwnedType::new failing on a non-empty String.
C13_Witness ==
    /\ Fallible /\ ret.op = "OwnedType::new" /\ ret.res.tag = "Err"
    /\ ret.input.ty = "String" /\ ret.input.v # <<>>
    /\ ret.res.val = ret.input

\* The deserialize functions of the output.
DeserializeFns == {i \in DOMAIN output : output[i].kind = "fn" /\ output[i].name = "deserialize"}

\* C14, as stated, for the generated code: with serde set, the borrowed type
\* (and the owned type, when requested) has a deserialize path in both modes,
\* whose body yields the Result the function declares.
C14_DeserializePathExists ==
    (status = "derived" /\ options.foreign.serde) =>
        /\ \E i \in DeserializeFns : output[i].self = "&Type"
        /\ options.owned # None =>
            \E i \in DeserializeFns : output[i].self = options.owned[1].ident
        /\ \A i \in DeserializeFns : output[i].text = output[i].arg

\* The values of the name fragments applied, concatenated in occurrence order
\* (the other attributes have no text), or "type" when there is none.
ExpectedName ==
    IF \A i \in DOMAIN applied : applied[i].kind # "Name"
    THEN "type"
    ELSE Concat(Flatten([i \in DOMAIN applied |-> applied[i].text]))

\* C15: the name in the error text and in the documentation of the generated
\* types is the lower-cased identifier when no name fragment was applied, and
\* otherwise the values of all name fragments concatenated in order.
C15_DisplayName ==
    status = "derived" =>
        /\ ~options.infallible =>
            /\ Emitted(Item("impl", "Display", "", "InvalidType",
                            "invalid " \o ExpectedName \o ": "))
            /\ \E i \in DOMAIN output :
                /\ output[i].kind = "struct" /\ output[i].name = "InvalidType"
                /\ output[i].text = "Invalid " \o ExpectedName \o " error."
        /\ options.owned # None =>
            \E i \in DOMAIN output :
                /\ output[i].kind = "struct" /\ output[i].name = options.owned[1].ident
                /\ output[i].text = "Owned " \o ExpectedName \o "."

\* Items generated after two different name fragments.
C15_Witness ==
    /\ status = "derived" /\ ~options.infallible
    /\ \E i \in DOMAIN applied : \E j \in DOMAIN applied :
        /\ i < j /\ applied[i].kind = "Name" /\ applied[j].kind = "Name"
        /\ applied[i].text = <<"a">> /\ applied[j].text = <<"B">>
    /\ \E i \in DOMAIN output : output[i].name = "Display" /\ output[i].text = "invalid aB: "

\* C16, as stated: a list whose sub-attributes are valid ones and `noderef`
\* is accepted, and the Deref impl is generated exactly when no sub-attribute
\* has switched it off.
C16_NoderefAccepted ==
    /\ (/\ ret.op = "extract_attributes" /\ ret.input.form = "List"
        /\ \E i \in DOMAIN ret.input.tokens : ret.input.tokens[i].ident = "noderef"
        /\ \A i \in DOMAIN ret.input.tokens :
            ~InvalidToken(ret.input.tokens[i]) \/ ret.input.tokens[i].ident = "noderef")
         => ret.res.tag # "Err"
    /\ status = "derived" => (Emitted(Impl("Deref", "str", "Type")) <=> ~options.no_deref)

(***************************************************************************)
(* The crate documentation's example (src/lib.rs): FooStr and FooString,   *)
(* `#[newtype(owned(FooString))] pub struct FooStr(str);` with the         *)
(* validation methods written there. FooStr is the `Type` of the generated *)
(* code and FooString its `OwnedType`.                                     *)
(***************************************************************************)

\* Length of the inputs given to the example's constructors.
FooLen == 3

\* Inputs made of the bytes 'f' (0x66) and 'o' (0x6F).
FooInputs(ty) == {Val(ty, b) : b \in SeqsUpTo({102, 111}, FooLen)}

FooInit ==
    /\ options = [Options_default EXCEPT
                    !.owned = <<[ident |-> "FooString", derives |-> Derives_default]>>]
    /\ validator = [bytes |-> "FooStr", str |-> "delegate"]
    /\ impls = [eq |-> "derived", ord |-> "derived", hash |-> "derived"]
    /\ live = <<>>
    /\ ret = NoCall
    /\ applied = <<>>
    /\ status = "generated"
    /\ output = <<>>

FooStrNew ==
    \E ty \in {"str", "[u8]"} : \E input \in FooInputs(ty) :
        Returns("Type::new", input, Type_new(input))

FooStrFromStr ==
    \E input \in FooInputs("str") : Returns("Type::from_str", input, Type_from_str(input))

FooStringNew ==
    \E ty \in {"String", "Vec<u8>"} : \E input \in FooInputs(ty) :
        Returns("OwnedType::new", input, OwnedType_new(input))

FooNext == FooStrNew \/ FooStrFromStr \/ FooStringNew

FooSpec == FooInit /\ [][FooNext]_vars

\* The bytes of "foo".
Foo == <<102, 111, 111>>

\* C17, as stated: the example's constructors accept an input if and only if
\* it is "foo", and every FooStr / FooString value constructed is "foo".
C17_ExampleAcceptsOnlyFoo ==
    /\ ret.op \in {"Type::new", "Type::from_str", "OwnedType::new"} =>
        (ret.res.tag = "Ok" <=> ret.input.v = Foo)
    /\ live # <<>> => live[1].v = Foo

\* The traits named by the derive(..) lists of the owned(...) fragments applied.
NamedDerives ==
    {d \in {"Default", "PartialEq", "Eq", "PartialOrd", "Ord", "Hash"} :
        \E i \in DOMAIN applied :
            /\ applied[i].kind = "Owned"
            /\ \E j \in DOMAIN applied[i].attrs :
                /\ applied[i].attrs[j].kind = "Derive"
                /\ \E k \in DOMAIN applied[i].attrs[j].ds : applied[i].attrs[j].ds[k] = d}

\* The positions <<fragment, sub-attribute>> of the owned-type identifiers applied.
IdentPositions ==
    UNION {{<<i, j>> : j \in {k \in DOMAIN applied[i].attrs : applied[i].attrs[k].kind = "Ident"}} :
            i \in {n \in DOMAIN applied : applied[n].kind = "Owned"}}

\* The identifier given last.
LastIdent ==
    LET p == CHOOSE p \in IdentPositions :
                \A q \in IdentPositions : q[1] < p[1] \/ (q[1] = p[1] /\ q[2] <= p[2])
    IN  applied[p[1]].attrs[p[2]].ident

\* How many times an item occurs in the output.
Count(item) == Cardinality({i \in DOMAIN output : output[i] = item})

\* The impl that only the given flag of the owned type generates.
ImplOfFlag(d, O) ==
    IF d \in {"PartialEq", "PartialOrd"} THEN Impl(d, O, O) ELSE Impl(d, "", O)

\* C18: once an owned type is established, its flags are exactly the traits
\* named by any owned(...) fragment applied, its name is the identifier given
\* last, and the output holds the impl of each set flag once and of no other.
C18_FlagsAccumulate ==
    (status \in {"resolving", "derived"} /\ options.owned # None) =>
        /\ \A d \in {"Default", "PartialEq", "Eq", "PartialOrd", "Ord", "Hash"} :
            options.owned[1].derives[DeriveField(d)] <=> d \in NamedDerives
        /\ options.owned[1].ident = LastIdent
        /\ status = "derived" =>
            \A d \in {"Default", "PartialEq", "Eq", "PartialOrd", "Ord", "Hash"} :
                Count(ImplOfFlag(d, options.owned[1].ident)) =
                    IF d \in NamedDerives THEN 1 ELSE 0

\* Items generated after a second owned(...) fragment, without identifier,
\* that repeats a flag of the first and names Hash twice.
C18_Witness ==
    /\ status = "derived"
    /\ Len(applied) >= 2
    /\ applied[1] = Owned(<<Ident("Buf"), Derive(<<"PartialEq">>)>>)
    /\ applied[2] = Owned(<<Derive(<<"Hash", "PartialEq", "Hash">>)>>)
    /\ options.owned[1].ident = "Buf"
    /\ Count(Impl("Hash", "", "Buf")) = 1 /\ Count(Impl("PartialEq", "Buf", "Buf")) = 1

\* The types of the attributes of the given kind applied, in order.
TypesApplied(kind) ==
    Flatten([i \in DOMAIN applied |-> IF applied[i].kind = kind THEN applied[i].types ELSE <<>>])

\* The impls of the trait for Type against foreign types (or with Type as
\* the argument, for a foreign type), in output order.
ForeignImpls(trait, forType) ==
    SelectSeq(output, LAMBDA it :
        /\ it.kind = "impl" /\ it.name = trait
        /\ IF forType THEN it.self = "Type" /\ it.arg \in {"[u8]", "str", "String"}
           ELSE it.arg = "Type" /\ it.self \in {"[u8]", "str", "String"})

\* C19: foreign_eq and foreign_ord are the types of the eq / ord fragments in
\* insertion order, duplicates kept; the borrowed type gets one equality pair
\* per entry of foreign_eq then of foreign_ord and one ordering pair per
\* entry of foreign_ord, in that order.
C19_OncePerOccurrence ==
    /\ status \in {"resolving", "derived"} =>
        /\ options.foreign.eq = TypesApplied("Eq")
        /\ options.foreign.ord = TypesApplied("Ord")
    /\ status = "derived" =>
        LET eqs == options.foreign.eq \o options.foreign.ord
            ords == options.foreign.ord
        IN  /\ ForeignImpls("PartialEq", TRUE) =
                    [i \in DOMAIN eqs |-> Impl("PartialEq", eqs[i], "Type")]
            /\ ForeignImpls("PartialEq", FALSE) =
                    [i \in DOMAIN eqs |-> Impl("PartialEq", "Type", eqs[i])]
            /\ ForeignImpls("PartialOrd", TRUE) =
                    [i \in DOMAIN ords |-> Impl("PartialOrd", ords[i], "Type")]
            /\ ForeignImpls("PartialOrd", FALSE) =
                    [i \in DOMAIN ords |-> Impl("PartialOrd", "Type", ords[i])]

\* Items generated for `str` listed under eq and under ord, and `String`
\* listed under eq twice: their equality pairs are emitted twice.
C19_Witness ==
    /\ status = "derived"
    /\ options.foreign.eq = <<"str", "String", "str", "String">>
    /\ options.foreign.ord = <<"str">>
    /\ Count(Impl("PartialEq", "String", "Type")) = 2
    /\ Count(Impl("PartialEq", "str", "Type")) = 3
    /\ Count(Impl("PartialOrd", "str", "Type")) = 1

\* validate_bytes accepts only well-formed UTF-8.
BytesImpliesUtf8 == \A b \in ByteStrs : validate_bytes(b) => from_utf8_ok(b)

\* C20: in fallible mode the outcome of a byte-sequence constructor is decided
\* by validate_bytes alone, also on bytes that are not UTF-8; and when
\* validate_bytes accepts only well-formed UTF-8, every &Type and OwnedType
\* value that exists holds well-formed UTF-8.
C20_WellFormedIfValidatorIs ==
    Fallible =>
        /\ ret.op \in ByteConstructors =>
            /\ ret.res.tag = "Ok" <=> validate_bytes(ret.input.v)
            /\ ret.res.tag = "Ok" => ret.res.val.v = ret.input.v
        /\ BytesImpliesUtf8 => (live # <<>> => from_utf8_ok(live[1].v))

\* An owned value built from bytes holding a two-byte character, under a
\* validate_bytes that accepts exactly the well-formed byte sequences.
C20_Witness ==
    /\ Fallible /\ validator.bytes = "utf8" /\ BytesImpliesUtf8
    /\ ret.op = "OwnedType::from_bytes" /\ ret.res.tag = "Ok"
    /\ LiveOwned /\ live[1].v = <<195, 169>>

====
